---- MODULE Spec2Model ----
(***************************************************************************)
(* A model of the three command line programs of scripts/:                 *)
(*   sym_tour_to_asym.py  the tour decoder (doubled tour -> canonical tour)*)
(*   nozzle-vanes.py      the geometric (asymmetric) instance generator    *)
(*   rand-density.py      the random-density (symmetric) generator         *)
(* Each program is its main() run step by step; pc is the position in it.  *)
(***************************************************************************)
EXTENDS Integers, Sequences, FiniteSets, TLC

VARIABLES
    pc,            \* position in main()
    result,        \* "running", "ok" (main returned None), "usage" (return 2),
                   \* "crash" (uncaught IndexError / ValueError)
    out,           \* the lines printed to stdout so far
    \* ---- sym_tour_to_asym.py
    lines,         \* the input file: a sequence of lines, each line.split(" ")
    encoded,       \* the canonical order the input file was built from (<<>>: none)
    reversed,      \* the canonical order whose tour the file walks backward (<<>>: none)
    lineno,        \* the line the for loop of line 56 is at
    problem_size,
    old_tour,
    forward_dir,
    new_tour,
    printed,       \* how many nodes of new_tour the loop of line 94 has printed
    first_lines,   \* the input file of the first run, when the decoder is run twice
    first_result,  \* and the result of that run
    \* ---- nozzle-vanes.py and rand-density.py
    prog,          \* "vane" or "den"
    nodes, seed, min_cost, max_cost,
    stream,        \* the library's generator: the value each stream state yields
    rng,           \* the state of the process-wide random stream
    seeded,        \* random.seed() has been called in this invocation
    draws,         \* values drawn from the stream in this invocation
    A, B, d,       \* nozzle-vanes.py: A[i], B[i] in grid units, d as the sum
    row, col,      \* the matrix row and column the loops are at
    line,          \* the entries printed on the line stdout has not ended yet
    invocation,    \* 1 or 2: the program is run twice with the same arguments
    first_out      \* stdout of the first invocation

decvars == <<lines, encoded, reversed, lineno, problem_size, old_tour, forward_dir,
             new_tour, printed>>
genvars == <<prog, nodes, seed, min_cost, max_cost, stream, rng, seeded, draws,
             A, B, d, row, col, line, invocation, first_out>>
pairvars == <<first_lines, first_result>>
vars == <<pc, result, out, decvars, genvars, pairvars>>

(***************************************************************************)
(* Bounds of the model.                                                    *)
(***************************************************************************)
MaxDim == 3        \* canonical tours of dimension 1..MaxDim are encoded
MaxSizeTok == 4    \* first tokens of the enumerated files: junk, -4..MaxSizeTok
MaxNodeTok == 2    \* later tokens of the enumerated files: junk, 0..MaxNodeTok
MaxRest == 3       \* tokens after the first one in the enumerated files
MaxNodes == 3      \* the generators are run with nodes in 0..MaxNodes
MaxSeed == 1       \* and seed in -1..MaxSeed
MaxCost == 2       \* and min_cost, max_cost in -1..MaxCost
Steps == 2         \* random() takes the values k / Steps or k / (Steps + 1), k in 0..Steps
Period == 4        \* the number of states of the random stream

(***************************************************************************)
(* Tokens.  A segment of line.split(" ") either is accepted by int() and   *)
(* has a value, or makes int() raise ValueError (an empty string, a word,  *)
(* "1\t2", "4.0", the "\n" of a blank line).                               *)
(***************************************************************************)
Tok(v) == [isint |-> TRUE, val |-> v]
Junk == [isint |-> FALSE, val |-> 0]

IsInt(segment) == segment.isint
IntOf(segment) == segment.val

\* the division of line 61 left out
PyDivDropped(a, b) == a

\* Python 2 int / int: floor division
PyDiv(a, b) == a \div b

\* the file whose tokens are s, with a line break after each position of b:
\* cur is the line being filled, acc the lines before it
RECURSIVE FileLinesFrom(_, _, _, _, _)
FileLinesFrom(s, b, i, cur, acc) ==
    IF i > Len(s) THEN (IF cur = <<>> THEN acc ELSE Append(acc, cur))
    ELSE IF i \in b THEN FileLinesFrom(s, b, i + 1, <<>>, Append(acc, Append(cur, s[i])))
    ELSE FileLinesFrom(s, b, i + 1, Append(cur, s[i]), acc)

FileLines(s, b, from) == FileLinesFrom(s, b, from, <<>>, <<>>)

\* the integer tokens of a file, in file order
RECURSIVE IntTokens(_)
IntTokens(s) ==
    IF s = <<>> THEN <<>>
    ELSE (IF IsInt(Head(s)) THEN <<IntOf(Head(s))>> ELSE <<>>) \o IntTokens(Tail(s))

RECURSIVE Flatten(_)
Flatten(ls) == IF ls = <<>> THEN <<>> ELSE Head(ls) \o Flatten(Tail(ls))

(***************************************************************************)
(* Input files.                                                            *)
(***************************************************************************)
SeqsUpTo(S, n) == UNION {[1..k -> S] : k \in 0..n}

FirstToks == {Junk} \cup {Tok(v) : v \in (-4)..MaxSizeTok}
RestToks == {Junk} \cup {Tok(v) : v \in 0..MaxNodeTok}

\* the permutations of 0..n-1, as sequences
Orders(n) == {o \in [1..n -> 0..(n - 1)] : \A i, j \in 1..n : i # j => o[i] # o[j]}

\* the forward-oriented doubled tour of a canonical order: sequence[2k] = order[k],
\* sequence[2k+1] = its paired node order[k] + n, sequence[1] = n (0-based)
EncodeForward(order) ==
    LET n == Len(order)
    IN [p \in 1..(2 * n) |->
           IF p = 2 THEN n
           ELSE IF p % 2 = 1 THEN order[(p + 1) \div 2]
           ELSE order[p \div 2] + n]

\* the same cycle walked backward from node 0, for an order with order[0] = 0:
\* B[0] = 0 and B[j] = F[2n - j] for 1 <= j < 2n, F the forward tour (0-based)
EncodeBackward(order) ==
    LET n == Len(order)
        F == EncodeForward(order)
    IN [p \in 1..(2 * n) |-> IF p = 1 THEN 0 ELSE F[2 * n - p + 2]]

ToToks(s) == [p \in 1..Len(s) |-> Tok(s[p])]

\* a tour file: the size on the first line, the sequence on the lines after it
TourFile(size, sequence, b) ==
    <<<<Tok(size)>>>> \o FileLines(ToToks(sequence), b, 1)

\* the scenario of the specification's section 8: size 8 and the sequence as it
\* is written there, the same tokens with the first one taken as the size, and
\* the forward tour of [0, 1, 2, 3]
ScenarioFile == TourFile(8, <<8, 4, 0, 5, 1, 6, 2, 7, 3>>, {})
ScenarioFileSizeFirst == TourFile(8, <<4, 0, 5, 1, 6, 2, 7, 3>>, {})
ScenarioFileForward == TourFile(8, <<0, 4, 1, 5, 2, 6, 3, 7>>, {})

\* the input files: every token stream within the bounds under every layout in
\* lines (the empty file too), the forward tour files of the canonical orders
\* of dimension 1..MaxDim, the backward tour files of those that start at 0,
\* and the scenario files
DecoderInput ==
    \/ /\ lines = <<>>
       /\ encoded = <<>>
       /\ reversed = <<>>
    \/ \E f \in FirstToks, r \in SeqsUpTo(RestToks, MaxRest) :
          \E b \in SUBSET (1..Len(r)) :
             /\ lines = FileLines(<<f>> \o r, b, 1)
             /\ encoded = <<>>
             /\ reversed = <<>>
    \/ \E n \in 1..MaxDim :
          \E o \in Orders(n), b \in SUBSET (1..(2 * n - 1)) :
             /\ lines = TourFile(2 * n, EncodeForward(o), b)
             /\ encoded = o
             /\ reversed = <<>>
    \/ \E n \in 2..MaxDim :
          \E o \in Orders(n), b \in SUBSET (1..(2 * n - 1)) :
             /\ o[1] = 0
             /\ lines = TourFile(2 * n, EncodeBackward(o), b)
             /\ encoded = <<>>
             /\ reversed = o
    \/ /\ lines \in {ScenarioFile, ScenarioFileSizeFirst, ScenarioFileForward}
       /\ encoded = <<>>
       /\ reversed = <<>>

(***************************************************************************)
(* sym_tour_to_asym.py                                                     *)
(***************************************************************************)
\* a line of stdout: what it is and the numbers printed in it
Line(tag, val) == [tag |-> tag, val |-> val]

GenIdle ==
    /\ prog = "decoder" /\ nodes = 0 /\ seed = 0 /\ min_cost = 0 /\ max_cost = 0
    /\ stream = <<>> /\ rng = 0 /\ seeded = FALSE /\ draws = 0
    /\ A = <<>> /\ B = <<>> /\ d = 0 /\ row = 0 /\ col = 0 /\ line = <<>>
    /\ invocation = 1 /\ first_out = <<>>

Init ==
    /\ DecoderInput
    /\ pc = "read"
    /\ result = "running"
    /\ out = <<>>
    /\ lineno = 1
    /\ problem_size = -1
    /\ old_tour = <<>>
    /\ forward_dir = FALSE
    /\ new_tour = <<>>
    /\ printed = 0
    /\ GenIdle
    /\ first_lines = <<>>
    /\ first_result = "running"

Crash ==
    /\ pc' = "done"
    /\ result' = "crash"

\* lines 56-68: one iteration of the loop over the lines of the file
ReadLine ==
    /\ pc = "read"
    /\ lineno <= Len(lines)
    /\ LET segments == lines[lineno]
       IN IF problem_size = -1
          THEN IF IsInt(segments[1])
               THEN /\ problem_size' = PyDiv(IntOf(segments[1]), 2)
                    /\ lineno' = lineno + 1
                    /\ UNCHANGED <<pc, result, old_tour>>
               ELSE /\ Crash
                    /\ UNCHANGED <<problem_size, lineno, old_tour>>
          ELSE /\ old_tour' = old_tour \o IntTokens(segments)
               /\ lineno' = lineno + 1
               /\ UNCHANGED <<pc, result, problem_size>>
    /\ UNCHANGED <<out, lines, encoded, reversed, forward_dir, new_tour, printed, genvars, pairvars>>

\* the header of lines 89-92 printed before the loop of line 78
OrientPrintsHeader ==
    /\ pc = "read"
    /\ lineno > Len(lines)
    /\ IF Len(old_tour) < 2
       THEN Crash /\ UNCHANGED <<forward_dir, out>>
       ELSE /\ forward_dir' = (old_tour[2] = problem_size)
            /\ out' = out \o <<Line("NAME", <<>>), Line("TYPE", <<>>),
                               Line("DIMENSION", <<problem_size>>),
                               Line("TOUR_SECTION", <<>>)>>
            /\ pc' = "collect"
            /\ UNCHANGED result
    /\ UNCHANGED <<lines, encoded, reversed, lineno, problem_size, old_tour, new_tour,
                   printed, genvars, pairvars>>

\* lines 75-76, reached when the file is exhausted
Orient ==
    /\ pc = "read"
    /\ lineno > Len(lines)
    /\ IF Len(old_tour) < 2
       THEN Crash /\ UNCHANGED forward_dir
       ELSE /\ forward_dir' = (old_tour[2] = problem_size)
            /\ pc' = "collect"
            /\ UNCHANGED result
    /\ UNCHANGED <<out, lines, encoded, reversed, lineno, problem_size, old_tour, new_tour,
                   printed, genvars, pairvars>>

\* the forward walk taking the odd positions
TourIndexOdd(fwd, size, i) == IF fwd THEN i * 2 + 1 ELSE (size - i - 1) * 2

\* lines 79-82: the index into old_tour (0-based) of iteration i
TourIndex(fwd, size, i) == IF fwd THEN i * 2 ELSE (size - i - 1) * 2

\* lines 78-83: the list the loop builds; the loop is range(0, size)
Collected(fwd, size, tour) ==
    [k \in 1..(IF size > 0 THEN size ELSE 0) |-> tour[TourIndex(fwd, size, k - 1) + 1]]

\* the rotation of lines 85-87 left out
RotatedNot(fwd, tour) == tour

\* new_tour.insert(0, 0) without the new_tour.pop() of line 87
RotatedNoPop(fwd, tour) == IF fwd THEN tour ELSE <<0>> \o tour

\* lines 85-87: new_tour.insert(0, 0); new_tour.pop()
Rotated(fwd, tour) ==
    IF fwd THEN tour ELSE SubSeq(<<0>> \o tour, 1, Len(tour))

\* lines 78-87
Collect ==
    /\ pc = "collect"
    /\ IF \E i \in 0..(problem_size - 1) :
              TourIndex(forward_dir, problem_size, i) >= Len(old_tour)
       THEN Crash /\ UNCHANGED new_tour
       ELSE /\ new_tour' = Rotated(forward_dir,
                                   Collected(forward_dir, problem_size, old_tour))
            /\ pc' = "header"
            /\ UNCHANGED result
    /\ UNCHANGED <<out, lines, encoded, reversed, lineno, problem_size, old_tour, forward_dir,
                   printed, genvars, pairvars>>

\* lines 89-92
PrintHeader ==
    /\ pc = "header"
    /\ out' = out \o <<Line("NAME", <<>>), Line("TYPE", <<>>),
                       Line("DIMENSION", <<problem_size>>),
                       Line("TOUR_SECTION", <<>>)>>
    /\ pc' = "nodes"
    /\ UNCHANGED <<result, decvars, genvars, pairvars>>

\* lines 94-95: one iteration
PrintNode ==
    /\ pc = "nodes"
    /\ printed < Len(new_tour)
    /\ out' = Append(out, Line("node", <<new_tour[printed + 1]>>))
    /\ printed' = printed + 1
    /\ UNCHANGED <<pc, result, lines, encoded, reversed, lineno, problem_size, old_tour,
                   forward_dir, new_tour, genvars, pairvars>>

\* line 96, and the return of main
PrintEnd ==
    /\ pc = "nodes"
    /\ printed = Len(new_tour)
    /\ out' = Append(out, Line("end", <<-1>>))
    /\ pc' = "done"
    /\ result' = "ok"
    /\ UNCHANGED <<decvars, genvars, pairvars>>

Next ==
    \/ ReadLine
    \/ Orient
    \/ Collect
    \/ PrintHeader
    \/ PrintNode
    \/ PrintEnd

Spec == Init /\ [][Next]_vars

(***************************************************************************)
(* The decoder run twice: the second run reads a file that agrees with the *)
(* file of the first run on the size token, on whether sequence[1] is the  *)
(* dimension, and on sequence[0], sequence[2], ..., sequence[2n-2], where  *)
(* the size token is the first integer token of the file and the sequence  *)
(* the integer tokens after it.                                            *)
(***************************************************************************)
SameKey(f, g) ==
    LET fi == IntTokens(Flatten(f))
        gi == IntTokens(Flatten(g))
    IN /\ Len(fi) >= 3 /\ Len(gi) >= 3
       /\ fi[1] = gi[1]
       /\ (fi[3] = PyDiv(fi[1], 2)) = (gi[3] = PyDiv(gi[1], 2))
       /\ \A k \in 0..(PyDiv(fi[1], 2) - 1) :
             /\ Len(fi) >= 2 * k + 2 /\ Len(gi) >= 2 * k + 2
             /\ fi[2 * k + 2] = gi[2 * k + 2]

\* the first file: a size token on the first line and up to MaxRest node
\* tokens on the second
PairInit ==
    /\ \E size \in (-4)..MaxSizeTok, r \in SeqsUpTo(0..MaxNodeTok, MaxRest) :
          lines = TourFile(size, r, {})
    /\ encoded = <<>>
    /\ reversed = <<>>
    /\ pc = "read"
    /\ result = "running"
    /\ out = <<>>
    /\ lineno = 1
    /\ problem_size = -1
    /\ old_tour = <<>>
    /\ forward_dir = FALSE
    /\ new_tour = <<>>
    /\ printed = 0
    /\ GenIdle
    /\ first_lines = <<>>
    /\ first_result = "running"

\* the process ends (line 99) and the program is started on another file: any
\* token stream within the bounds, under any layout in lines, that agrees with
\* the first file
Reread ==
    /\ pc = "done"
    /\ invocation = 1
    /\ invocation' = 2
    /\ first_lines' = lines
    /\ first_result' = result
    /\ first_out' = out
    /\ \E f \in FirstToks, r \in SeqsUpTo(RestToks, MaxRest) :
          \E b \in SUBSET (1..Len(r)) :
             /\ SameKey(lines, FileLines(<<f>> \o r, b, 1))
             /\ lines' = FileLines(<<f>> \o r, b, 1)
    /\ encoded' = <<>>
    /\ reversed' = <<>>
    /\ pc' = "read"
    /\ result' = "running"
    /\ out' = <<>>
    /\ lineno' = 1
    /\ problem_size' = -1
    /\ old_tour' = <<>>
    /\ forward_dir' = FALSE
    /\ new_tour' = <<>>
    /\ printed' = 0
    /\ UNCHANGED <<prog, nodes, seed, min_cost, max_cost, stream, rng, seeded, draws,
                   A, B, d, row, col, line>>

PairNext ==
    \/ ReadLine
    \/ Orient
    \/ Collect
    \/ PrintHeader
    \/ PrintNode
    \/ PrintEnd
    \/ Reread

PairSpec == PairInit /\ [][PairNext]_vars

(***************************************************************************)
(* The random module.  The process-wide stream is a state rng; random()    *)
(* yields a value that depends on the state alone and moves the stream to  *)
(* the next state; random.seed(s) puts it in a state that depends on s     *)
(* alone.  stream[r] is the value state r yields; it is the library's and  *)
(* is fixed, and is filled in here when a state is first drawn from (-1:   *)
(* not drawn from yet).                                                    *)
(***************************************************************************)
RngStates == 0..(Period - 1)

\* random.seed() left out: the stream stays in the state it is in
SeedStateKept(s) == rng

SeedState(s) == s % Period

NextState(r) == (r + 1) % Period

\* one call of random(): the raw value raw in 0..Steps
Draw(raw) ==
    /\ raw \in 0..Steps
    /\ stream[rng] \in {-1, raw}
    /\ stream' = [stream EXCEPT ![rng] = raw]
    /\ rng' = NextState(rng)
    /\ draws' = draws + 1

\* random.uniform(a, b) = a + (b - a) * random(), a value of [a, b]; in units
\* of 1 / Steps, with random() = raw / Steps
Uniform(raw, a, b) == a * Steps + (b - a) * raw

\* random.randint(a, b) = a + int(random() * (b - a + 1)), with
\* random() = raw / (Steps + 1)
RandInt(raw, a, b) == a + (raw * (b - a + 1)) \div (Steps + 1)

(***************************************************************************)
(* nozzle-vanes.py and rand-density.py                                     *)
(***************************************************************************)
min_rand == -1
max_rand == 1
mult == 10000
\* the sentinel without its factor
inftyUnscaled == mult

infty == mult * 16

DecIdle ==
    /\ lines = <<>> /\ encoded = <<>> /\ reversed = <<>> /\ lineno = 0 /\ problem_size = 0
    /\ old_tour = <<>> /\ forward_dir = FALSE /\ new_tour = <<>> /\ printed = 0
    /\ first_lines = <<>> /\ first_result = "running"

Fresh ==
    /\ pc = "args"
    /\ result = "running"
    /\ out = <<>>
    /\ line = <<>>
    /\ seeded = FALSE
    /\ draws = 0
    /\ A = <<>> /\ B = <<>> /\ d = 0
    /\ row = 0 /\ col = 0

GenInit ==
    /\ prog \in {"vane", "den"}
    /\ nodes \in 0..MaxNodes
    /\ seed \in (-1)..MaxSeed
    /\ IF prog = "den"
       THEN min_cost \in (-1)..MaxCost /\ max_cost \in (-1)..MaxCost
       ELSE min_cost = 0 /\ max_cost = 0
    /\ stream = [r \in RngStates |-> -1]
    /\ rng \in RngStates
    /\ invocation = 1
    /\ first_out = <<>>
    /\ Fresh
    /\ DecIdle

\* the check of line 73 of rand-density.py left out
ArgsValidNoRange ==
    IF prog = "vane"
    THEN ~(nodes <= 0) /\ ~(seed < 0)
    ELSE ~(nodes <= 0) /\ ~(min_cost < 0) /\ ~(seed < 0)

\* nozzle-vanes.py lines 57-60, rand-density.py lines 69-76
ArgsValid ==
    IF prog = "vane"
    THEN ~(nodes <= 0) /\ ~(seed < 0)
    ELSE ~(nodes <= 0) /\ ~(min_cost < 0) /\ ~(max_cost < min_cost) /\ ~(seed < 0)

genfixed == <<prog, nodes, seed, min_cost, max_cost, invocation, first_out, decvars,
              pairvars>>

\* the option checks and the except Usage clause (return 2)
Validate ==
    /\ pc = "args"
    /\ IF ArgsValid
       THEN pc' = "seed" /\ UNCHANGED result
       ELSE pc' = "done" /\ result' = "usage"
    /\ UNCHANGED <<out, line, stream, rng, seeded, draws, A, B, d, row, col, genfixed>>

\* nozzle-vanes.py lines 75-79, rand-density.py line 86
Seed ==
    /\ pc = "seed"
    /\ rng' = SeedState(seed)
    /\ seeded' = TRUE
    /\ IF prog = "vane"
       THEN /\ pc' = "drawA"
            /\ A' = [i \in 1..nodes |-> i - 1]
            /\ B' = [i \in 1..nodes |-> i - 1]
       ELSE /\ pc' = "header"
            /\ UNCHANGED <<A, B>>
    /\ UNCHANGED <<result, out, line, stream, draws, d, row, col, genfixed>>

\* nozzle-vanes.py line 82
DrawA ==
    /\ pc = "drawA"
    /\ row < nodes
    /\ \E raw \in 0..Steps :
          /\ Draw(raw)
          /\ A' = [A EXCEPT ![row + 1] = Uniform(raw, min_rand, max_rand)]
    /\ pc' = "drawB"
    /\ UNCHANGED <<result, out, line, seeded, B, d, row, col, genfixed>>

\* nozzle-vanes.py lines 83-84
DrawB ==
    /\ pc = "drawB"
    /\ \E raw \in 0..Steps :
          /\ Draw(raw)
          /\ B' = [B EXCEPT ![row + 1] = Uniform(raw, min_rand, max_rand)]
          /\ d' = d + A[row + 1] + Uniform(raw, min_rand, max_rand)
    /\ row' = row + 1
    /\ pc' = "drawA"
    /\ UNCHANGED <<result, out, line, seeded, A, col, genfixed>>

\* nozzle-vanes.py line 86.  d is kept as the sum, in units of 1 / Steps; the
\* division by nodes is the denominator of VaneCost.
Mean ==
    /\ pc = "drawA"
    /\ row = nodes
    /\ pc' = "header"
    /\ row' = 0
    /\ UNCHANGED <<result, out, line, stream, rng, seeded, draws, A, B, d, col, genfixed>>

\* nozzle-vanes.py lines 89-95 (name = "": line 68), rand-density.py lines 88-94
\* (line 84)
Header ==
    /\ pc = "header"
    /\ out' = <<Line("NAME", IF prog = "vane" THEN <<nodes, seed>>
                             ELSE <<nodes, seed, max_cost>>),
                Line("TYPE", <<>>),
                Line("COMMENT", IF prog = "vane" THEN <<seed>>
                                ELSE <<seed, min_cost, max_cost>>),
                Line("DIMENSION", <<nodes>>),
                Line("EDGE_WEIGHT_TYPE", <<>>),
                Line("EDGE_WEIGHT_FORMAT", <<>>),
                Line("EDGE_WEIGHT_SECTION", <<>>)>>
    /\ pc' = "rows"
    /\ UNCHANGED <<result, line, stream, rng, seeded, draws, A, B, d, row, col, genfixed>>

\* nozzle-vanes.py line 102, i # j (0-based):
\* math.floor(mult * (d - (A[i] + B[j]))**2 + 0.5), where d is sum / nodes and
\* sum, A[i], B[j] are in units of 1 / Steps
VaneCost(sum, a, b) ==
    LET num == sum - nodes * (a + b)
        den == (nodes * Steps) * (nodes * Steps)
    IN (2 * mult * num * num + den) \div (2 * den)

\* nozzle-vanes.py lines 98-102
VaneEntry(i, j) == IF i = j THEN infty ELSE VaneCost(d, A[i + 1], B[j + 1])

\* nozzle-vanes.py lines 97-103: one row of the matrix
VaneRow ==
    /\ pc = "rows"
    /\ prog = "vane"
    /\ row < nodes
    /\ out' = Append(out, Line("row", [j \in 1..nodes |-> VaneEntry(row, j - 1)]))
    /\ row' = row + 1
    /\ UNCHANGED <<pc, result, line, stream, rng, seeded, draws, A, B, d, col, genfixed>>

\* the draw taken from 0 instead of min_cost
DenEntryFromZero(i, j, raw) == IF i = j THEN 0 ELSE RandInt(raw, 0, max_cost)

\* rand-density.py lines 98-101
DenEntry(i, j, raw) == IF i = j THEN 0 ELSE RandInt(raw, min_cost, max_cost)

\* rand-density.py lines 97-101: an entry left of the diagonal
DenDraw ==
    /\ pc = "rows"
    /\ prog = "den"
    /\ row < nodes
    /\ col # row
    /\ \E raw \in 0..Steps :
          /\ Draw(raw)
          /\ line' = Append(line, DenEntry(row, col, raw))
    /\ col' = col + 1
    /\ UNCHANGED <<pc, result, out, seeded, A, B, d, row, genfixed>>

\* rand-density.py lines 97-99 and 102: the diagonal entry and the end of the row
DenDiag ==
    /\ pc = "rows"
    /\ prog = "den"
    /\ row < nodes
    /\ col = row
    /\ out' = Append(out, Line("row", Append(line, DenEntry(row, col, 0))))
    /\ line' = <<>>
    /\ row' = row + 1
    /\ col' = 0
    /\ UNCHANGED <<pc, result, stream, rng, seeded, draws, A, B, d, genfixed>>

\* nozzle-vanes.py line 104, rand-density.py line 103, and the return of main
Eof ==
    /\ pc = "rows"
    /\ row = nodes
    /\ out' = Append(out, Line("EOF", <<>>))
    /\ pc' = "done"
    /\ result' = "ok"
    /\ UNCHANGED <<line, stream, rng, seeded, draws, A, B, d, row, col, genfixed>>

\* the program is run once more with the same arguments, in a process whose
\* random stream is in any state
Reinvoke ==
    /\ pc = "done"
    /\ invocation = 1
    /\ invocation' = 2
    /\ first_out' = out
    /\ rng' \in RngStates
    /\ pc' = "args"
    /\ result' = "running"
    /\ out' = <<>>
    /\ line' = <<>>
    /\ seeded' = FALSE
    /\ draws' = 0
    /\ A' = <<>> /\ B' = <<>> /\ d' = 0
    /\ row' = 0 /\ col' = 0
    /\ UNCHANGED <<prog, nodes, seed, min_cost, max_cost, stream, decvars, pairvars>>

GenNext ==
    \/ Validate
    \/ Seed
    \/ DrawA
    \/ DrawB
    \/ Mean
    \/ Header
    \/ VaneRow
    \/ DenDraw
    \/ DenDiag
    \/ Eof
    \/ Reinvoke

GenSpec == GenInit /\ [][GenNext]_vars

(***************************************************************************)
(* Properties of the tour decoder.                                         *)
(***************************************************************************)
\* the node ids printed in the TOUR_SECTION
RECURSIVE OutNodes(_)
OutNodes(o) ==
    IF o = <<>> THEN <<>>
    ELSE (IF Head(o).tag = "node" THEN Head(o).val ELSE <<>>) \o OutNodes(Tail(o))

IsPermutation(order, n) ==
    /\ Len(order) = n
    /\ \A i \in 1..Len(order) : order[i] \in 0..(n - 1)
    /\ \A i, j \in 1..Len(order) : i # j => order[i] # order[j]

\* the integer tokens of the whole input file, in file order
FileInts == IntTokens(Flatten(lines))

\* C1: decoding the forward-oriented doubled tour of a canonical order (the
\* size 2n on the first line, the sequence on the lines after it, however
\* they are broken) succeeds and prints exactly that order.
C1_RoundTrip ==
    (pc = "done" /\ encoded # <<>>) =>
        /\ result = "ok"
        /\ forward_dir
        /\ new_tour = encoded
        /\ OutNodes(out) = encoded

C1_Witness ==
    /\ pc = "done" /\ result = "ok"
    /\ Len(encoded) = 3 /\ encoded[1] # 0
    /\ Len(lines) > 2
    /\ OutNodes(out) = encoded

\* C2 (as claimed): whenever the decoder emits a tour, the order is a
\* permutation of [0, n).
C2_PermutationOrFail ==
    (pc = "done" /\ result = "ok") => IsPermutation(new_tour, problem_size)


C8_OddSizeFails ==
    (/\ pc = "done"
     /\ FileInts # <<>>
     /\ FileInts[1] % 2 = 1) => result = "crash"

\* C9 (as claimed): a file with fewer integer tokens after the size token
\* than the size is rejected and nothing is printed.
C9_TooFewTokensFails ==
    (/\ pc = "done"
     /\ FileInts # <<>>
     /\ Len(FileInts) - 1 < FileInts[1]) => (result = "crash" /\ out = <<>>)

\* C10 (as claimed): once the file is read, the size is the first integer
\* token of the file and the doubled sequence is every later integer token,
\* whatever the layout in lines and whatever junk is interleaved.
C10_LayoutIndependent ==
    (pc # "read" /\ FileInts # <<>>) =>
        /\ problem_size = PyDiv(FileInts[1], 2)
        /\ old_tour = Tail(FileInts)

\* the emitted tour is well formed: the four header lines, as many node lines
\* as the DIMENSION line declares, and one terminator line -1 at the end
TourWellFormed ==
    /\ Len(out) >= 5
    /\ out[3].tag = "DIMENSION"
    /\ Len(OutNodes(out)) = out[3].val[1]
    /\ Len(out) = 4 + Len(OutNodes(out)) + 1
    /\ \A i \in 1..Len(out) : out[i].tag = "end" <=> i = Len(out)
    /\ out[Len(out)] = Line("end", <<-1>>)

C12_AllOrNothing ==
    /\ result = "crash" => out = <<>>
    /\ out # <<>> =>
          /\ pc \in {"nodes", "done"}
          /\ pc = "done" => (result = "ok" /\ out[Len(out)].tag = "end")

C12_Witness ==
    /\ pc = "done" /\ result = "crash"
    /\ Len(old_tour) >= 2
    /\ problem_size >= 2
    /\ out = <<>>

\* C13: for a canonical order that starts at 0, of dimension 2 or more, the
\* forward doubled tour is decoded forward, the same cycle walked backward
\* from node 0 is decoded backward, and both runs print that order.
C13_OrientationIndependent ==
    /\ (pc = "done" /\ reversed # <<>>) =>
          /\ result = "ok"
          /\ ~forward_dir
          /\ OutNodes(out) = reversed
    /\ (pc = "done" /\ Len(encoded) >= 2 /\ encoded[1] = 0) =>
          /\ result = "ok"
          /\ forward_dir
          /\ OutNodes(out) = encoded

C13_Witness ==
    /\ pc = "done" /\ result = "ok"
    /\ reversed = <<0, 2, 1>>
    /\ old_tour = <<0, 4, 1, 5, 2, 3>>
    /\ ~forward_dir
    /\ OutNodes(out) = <<0, 2, 1>>

\* C14 (as claimed; specification PairSpec): two input files that agree on
\* the size token, on whether sequence[1] equals the dimension and on the
\* even-indexed entries sequence[0], ..., sequence[2n-2] give the same result
\* and the same output.
C14_InputDependence ==
    (pc = "done" /\ invocation = 2) =>
        /\ result = first_result
        /\ out = first_out

(***************************************************************************)
(* Properties of the generators (specification GenSpec).                   *)
(***************************************************************************)
\* the rows of the EDGE_WEIGHT_SECTION printed so far
RECURSIVE OutRows(_)
OutRows(o) ==
    IF o = <<>> THEN <<>>
    ELSE (IF Head(o).tag = "row" THEN <<Head(o).val>> ELSE <<>>) \o OutRows(Tail(o))

\* C3: two invocations with the same arguments print the same text, whatever
\* state the random stream was in before each of them.
C3_Deterministic ==
    (pc = "done" /\ invocation = 2) => out = first_out

C3_Witness ==
    /\ pc = "done" /\ invocation = 2 /\ result = "ok"
    /\ prog = "vane" /\ nodes = 2
    /\ \E k \in 1..2 : OutRows(out)[k][3 - k] > 0
    /\ out = first_out

\* C4: in every row the geometric generator prints, the diagonal entry is
\* 16 * 10000 and every other entry is a non-negative integer not above it.
C4_SentinelDominance ==
    prog = "vane" =>
        \A i \in 1..Len(OutRows(out)) :
            LET r == OutRows(out)[i]
            IN /\ Len(r) = nodes
               /\ r[i] = 16 * 10000
               /\ \A j \in 1..Len(r) : j # i => (r[j] \in Nat /\ r[i] >= r[j])

C4_Witness ==
    /\ prog = "vane" /\ pc = "done" /\ result = "ok"
    /\ nodes = 2
    /\ OutRows(out)[1][2] = 40000
    /\ OutRows(out)[1][1] = 160000

\* C5: for valid arguments the random-density generator prints nodes rows,
\* row i (from 0) with i + 1 entries, the last one 0 and the others in
\* [min_cost, max_cost].
C5_LowerTriangleInRange ==
    (/\ prog = "den" /\ pc = "done"
     /\ nodes > 0 /\ seed >= 0 /\ min_cost >= 0 /\ max_cost >= min_cost) =>
        /\ result = "ok"
        /\ Len(OutRows(out)) = nodes
        /\ \A i \in 1..Len(OutRows(out)) :
              LET r == OutRows(out)[i]
              IN /\ Len(r) = i
                 /\ r[i] = 0
                 /\ \A j \in 1..(i - 1) : min_cost <= r[j] /\ r[j] <= max_cost
        /\ (min_cost = 0 /\ max_cost = 0 /\ nodes = 3) =>
              OutRows(out) = <<<<0>>, <<0, 0>>, <<0, 0, 0>>>>

C5_Witness ==
    /\ prog = "den" /\ pc = "done" /\ result = "ok"
    /\ nodes = 3 /\ seed = 0 /\ min_cost = 1 /\ max_cost = 2
    /\ OutRows(out) = <<<<0>>, <<1, 0>>, <<2, 1, 0>>>>

\* C6: with an invalid argument the invocation ends as a usage error, the
\* stream is neither seeded nor drawn from, and nothing is printed.
C6_InvalidArgsRejected ==
    (\/ nodes <= 0
     \/ seed < 0
     \/ prog = "den" /\ (min_cost < 0 \/ max_cost < min_cost)) =>
        /\ pc \in {"args", "done"}
        /\ pc = "done" => result = "usage"
        /\ ~seeded
        /\ draws = 0
        /\ out = <<>>
        /\ line = <<>>

C6_Witness ==
    /\ pc = "done" /\ result = "usage"
    /\ prog = "den" /\ nodes > 0 /\ seed >= 0 /\ min_cost >= 0 /\ max_cost < min_cost
    /\ out = <<>> /\ ~seeded

====
